---- MODULE Spec2Model ----
(***************************************************************************)
(* Model of Task5_Dashboard.py: a Streamlit script that loads a sales      *)
(* table once (st.cache_data), reads four sidebar filters and a page       *)
(* selector, filters the table with a boolean mask and computes the        *)
(* grouped views of the selected page.                                     *)
(*                                                                         *)
(* Data representation.  A table (DataFrame) is a sequence of rows; a row  *)
(* is a record with one field per column.  Categorical values are strings, *)
(* a missing value (pandas NaN in an object column) is NULL.  Money        *)
(* amounts are integers (cents), a discount is an integer percentage, an   *)
(* order date is a day number.  Label order (pandas sorts group keys) is   *)
(* the position of the label in Alphabet, which lists the labels in        *)
(* lexicographic order.                                                    *)
(***************************************************************************)
EXTENDS Integers, Sequences, FiniteSets, TLC

\* ------------------------------------------------------------------ bounds
\* Longest table drawn from RowPool.
MaxRows == 2
\* Order dates and the dates the date picker can return are 1..MaxDate.
MaxDate == 2
\* Number of distinct states in the wide tables (more than TopN).
MaxStates == 11

\* head(10) of the Top 10 States view.
TopN == 10

\* ------------------------------------------------------------------ values
NULL == "<NA>"

\* All labels of the model in lexicographic (byte) order, as pandas sorts them.
Alphabet ==
    << "Chairs", "Consumer", "Corporate", "East", "First Class", "Furniture",
       "Phones", "S01", "S02", "S03", "S04", "S05", "S06", "S07", "S08",
       "S09", "S10", "S11", "S12", "S13", "Second Class", "Tables", "West" >>

StateNames ==
    << "S01", "S02", "S03", "S04", "S05", "S06", "S07", "S08", "S09", "S10",
       "S11", "S12", "S13" >>

LabelRank(l) == CHOOSE i \in 1..Len(Alphabet) : Alphabet[i] = l

\* Sort rank of a key value: a label ("label") or a year ("int").
Rank(kind, x) == IF kind = "int" THEN x ELSE LabelRank(x)

\* isna() of a key value; a year is never missing (the order date of a
\* filtered row passed both date comparisons, which are False for NaT).
IsNull(kind, x) == IF kind = "int" THEN FALSE ELSE x = NULL

Dates == 1..MaxDate

\* dt.year of an order date: day number 1 falls in 2011, 2 and 3 in 2012, ...
YearOf(d) == 2011 + (d \div 2)

Row(id, d, reg, seg, cat, sub, ship, st, s, p, disc, sc) ==
    [order_id |-> id, order_date |-> d, region |-> reg, segment |-> seg,
     category |-> cat, sub_category |-> sub, ship_mode |-> ship, state |-> st,
     sales |-> s, profit |-> p, discount |-> disc, shipping_cost |-> sc]

\* Representative lines of the source file, missing values included.
RowPool ==
    { Row("O1", 1, "East", "Consumer", "Furniture", "Chairs", "First Class", "S01", 100, 10, 0, 5),
      Row("O1", 2, "East", "Corporate", "Furniture", "Tables", "Second Class", "S01", 50, -5, 20, 3),
      Row("O2", 2, "West", "Consumer", "Furniture", "Chairs", "First Class", "S02", 200, 20, 0, 8),
      Row("O3", 1, "West", "Corporate", "Furniture", NULL, NULL, NULL, 30, -10, 50, 4),
      Row("O4", 1, NULL, "Consumer", "Furniture", "Phones", "Second Class", "S02", 70, 7, 0, 2),
      Row("O5", 2, "East", NULL, NULL, "Phones", "First Class", "S01", 40, 4, 10, 1) }

SmallTables == UNION { [1..n -> RowPool] : n \in 1..MaxRows }

\* Two East rows (Consumer, Corporate) and one West row (Consumer).
ExampleTable ==
    << Row("O1", 1, "East", "Consumer", "Furniture", "Chairs", "First Class", "S01", 100, 10, 0, 5),
       Row("O1", 2, "East", "Corporate", "Furniture", "Tables", "Second Class", "S01", 50, -5, 20, 3),
       Row("O2", 2, "West", "Consumer", "Furniture", "Chairs", "First Class", "S02", 200, 20, 0, 8) >>

\* One region, segment and category; MaxStates distinct states, the first
\* of them on two rows; alternating order dates; profits with ties and
\* negative values.
WideRow(i, k) ==
    Row("O1", 1 + (i % 2), "East", "Consumer", "Furniture", "Chairs", "First Class",
        StateNames[((i - 1) % MaxStates) + 1], 10 * i, ((i * k) % 4) - 1, 0, 1)

WideTables == { [i \in 1..(MaxStates + 1) |-> WideRow(i, k)] : k \in 1..2 }

Tables == SmallTables \cup WideTables \cup { ExampleTable }

\* ------------------------------------------------------------------ pandas
RECURSIVE SeqSum(_, _)
\* Series.sum() of column f.
SeqSum(t, f) == IF t = << >> THEN 0 ELSE t[1][f] + SeqSum(Tail(t), f)

\* Series.dropna().unique() as a set.
Unique(t, f) == { t[i][f] : i \in 1..Len(t) } \ { NULL }

\* Series.min() / Series.max() of the order dates.
MinDate(t) == CHOOSE d \in { t[i].order_date : i \in 1..Len(t) } :
                  \A j \in 1..Len(t) : d <= t[j].order_date
MaxDateOf(t) == CHOOSE d \in { t[i].order_date : i \in 1..Len(t) } :
                  \A j \in 1..Len(t) : d >= t[j].order_date

\* Key tuples (one or two components) in lexicographic order of their ranks.
KeyLess(a, b, kind) ==
    \/ Rank(kind, a[1]) < Rank(kind, b[1])
    \/ /\ a[1] = b[1]
       /\ Len(a) > 1
       /\ Rank(kind, a[2]) < Rank(kind, b[2])

\* The key tuples of S in ascending order.
SortKeys(S, kind) ==
    [p \in 1..Cardinality(S) |->
        CHOOSE x \in S : Cardinality({ y \in S : KeyLess(y, x, kind) }) = p - 1]

KeyOf(r, keys) == [j \in 1..Len(keys) |-> r[keys[j]]]

HasNullKey(r, keys, kind) == \E j \in 1..Len(keys) : IsNull(kind, r[keys[j]])

\* Rows of t whose key tuple is k.
RowsOfKey(t, keys, k) == SelectSeq(t, LAMBDA r : KeyOf(r, keys) = k)

\* Faulty variant of GroupBySum: .first() in place of .sum().
GroupByFirst(t, keys, val, kind) ==
    LET kept == SelectSeq(t, LAMBDA r : ~HasNullKey(r, keys, kind))
        ks   == SortKeys({ KeyOf(kept[i], keys) : i \in 1..Len(kept) }, kind)
    IN  [p \in 1..Len(ks) |->
            [key |-> ks[p], value |-> RowsOfKey(kept, keys, ks[p])[1][val]]]

\* Faulty variant of GroupBySum: groupby(..., dropna=False), the rows with a missing
\* key form groups of their own, here listed after the others.
GroupBySumKeepNull(t, keys, val, kind) ==
    LET kept    == SelectSeq(t, LAMBDA r : ~HasNullKey(r, keys, kind))
        dropped == SelectSeq(t, LAMBDA r : HasNullKey(r, keys, kind))
        ks      == SortKeys({ KeyOf(kept[i], keys) : i \in 1..Len(kept) }, kind)
    IN  [p \in 1..Len(ks) |->
            [key |-> ks[p], value |-> SeqSum(RowsOfKey(kept, keys, ks[p]), val)]]
        \o [p \in 1..Len(dropped) |->
            [key |-> KeyOf(dropped[p], keys), value |-> dropped[p][val]]]

\* DataFrame.groupby(keys)[val].sum().reset_index(): one row per distinct key
\* tuple with no missing component (dropna=True, the default), keys ascending
\* (sort=True, the default).
GroupBySum(t, keys, val, kind) ==
    LET kept == SelectSeq(t, LAMBDA r : ~HasNullKey(r, keys, kind))
        ks   == SortKeys({ KeyOf(kept[i], keys) : i \in 1..Len(kept) }, kind)
    IN  [p \in 1..Len(ks) |->
            [key |-> ks[p], value |-> SeqSum(RowsOfKey(kept, keys, ks[p]), val)]]

\* Faulty variant of SortValuesDesc: sort_values() with the default ascending=True.
SortValuesAsc(s) ==
    LET Before(i) == Cardinality({ j \in 1..Len(s) :
                        \/ s[j].value < s[i].value
                        \/ (s[j].value = s[i].value /\ j < i) })
    IN  [p \in 1..Len(s) |-> s[CHOOSE i \in 1..Len(s) : Before(i) = p - 1]]

\* Series.sort_values(ascending=False): descending by value, equal values in
\* their order in s (the sort is stable for the short series of the model).
SortValuesDesc(s) ==
    LET Before(i) == Cardinality({ j \in 1..Len(s) :
                        \/ s[j].value > s[i].value
                        \/ (s[j].value = s[i].value /\ j < i) })
    IN  [p \in 1..Len(s) |-> s[CHOOSE i \in 1..Len(s) : Before(i) = p - 1]]

\* Series.head(n).
HeadN(s, n) == SubSeq(s, 1, IF Len(s) < n THEN Len(s) ELSE n)

\* DataFrame.pivot(index, columns, values) of a two-key grouped frame: a cell
\* is << v >> where the pair has a row and << >> (NaN) where it has none.
Pivot(g) ==
    LET idx  == SortKeys({ << g[i].key[1] >> : i \in 1..Len(g) }, "label")
        cols == SortKeys({ << g[i].key[2] >> : i \in 1..Len(g) }, "label")
        Cell(a, b) ==
            IF \E i \in 1..Len(g) : g[i].key = << a, b >>
            THEN << (CHOOSE x \in { g[i] : i \in 1..Len(g) } : x.key = << a, b >>).value >>
            ELSE << >>
    IN  [index   |-> [i \in 1..Len(idx) |-> idx[i][1]],
         columns |-> [j \in 1..Len(cols) |-> cols[j][1]],
         values  |-> [i \in 1..Len(idx) |->
                        [j \in 1..Len(cols) |-> Cell(idx[i][1], cols[j][1])]]]

\* Faulty variant of Fillna: fillna(method="ffill"), a missing cell takes the value of
\* the row above where there is one.
FillnaFfill(p, v) ==
    [p EXCEPT !.values =
        [i \in 1..Len(p.values) |->
            [j \in 1..Len(p.values[i]) |->
                IF p.values[i][j] # << >> THEN p.values[i][j][1]
                ELSE IF i > 1 /\ p.values[i - 1][j] # << >> THEN p.values[i - 1][j][1]
                ELSE v]]]

\* DataFrame.fillna(v).
Fillna(p, v) ==
    [p EXCEPT !.values =
        [i \in 1..Len(p.values) |->
            [j \in 1..Len(p.values[i]) |->
                IF p.values[i][j] = << >> THEN v ELSE p.values[i][j][1]]]]

\* ------------------------------------------------------------------ script
\* Faulty variant of Mask: the two date comparisons joined by | instead of &.
MaskDateOr(r, reg, seg, cat, dr) ==
    /\ r.region \in reg
    /\ r.segment \in seg
    /\ r.category \in cat
    /\ \/ r.order_date >= dr[1]
       \/ r.order_date <= dr[2]

\* Faulty variant of Mask: the end of the date range exclusive.
MaskExclusiveEnd(r, reg, seg, cat, dr) ==
    /\ r.region \in reg
    /\ r.segment \in seg
    /\ r.category \in cat
    /\ r.order_date >= dr[1]
    /\ r.order_date < dr[2]

\* The boolean mask of lines 30-34 for one row.
Mask(r, reg, seg, cat, dr) ==
    /\ r.region \in reg
    /\ r.segment \in seg
    /\ r.category \in cat
    /\ r.order_date >= dr[1]
    /\ r.order_date <= dr[2]

\* Faulty variant of BooleanIndex: the mask is applied from the second row on.
BooleanIndexSkipFirst(t, reg, seg, cat, dr) ==
    IF t = << >> THEN << >>
    ELSE SelectSeq(Tail(t), LAMBDA r : Mask(r, reg, seg, cat, dr))

\* df[mask]: the rows whose mask is True, in the order of df.
BooleanIndex(t, reg, seg, cat, dr) ==
    SelectSeq(t, LAMBDA r : Mask(r, reg, seg, cat, dr))

\* Series.mean(): NaN (<< >>) of an empty series, else the quotient sum / count
\* kept as << sum, count >>.
Mean(t, f) == IF t = << >> THEN << >> ELSE << SeqSum(t, f), Len(t) >>

\* Series.nunique().
NUnique(t, f) == Cardinality(Unique(t, f))

\* The four metrics of draw_kpis.
Kpis(t) ==
    [total_sales  |-> SeqSum(t, "sales"),
     total_profit |-> SeqSum(t, "profit"),
     avg_shipping |-> Mean(t, "shipping_cost"),
     total_orders |-> NUnique(t, "order_id")]

RegionSales(t) == GroupBySum(t, << "region" >>, "sales", "label")

\* df_year['Year'] = df_year['Order Date'].dt.year
WithYear(t) == [i \in 1..Len(t) |-> t[i] @@ ("Year" :> YearOf(t[i].order_date))]

YearSales(t) == GroupBySum(t, << "Year" >>, "sales", "int")

TopStates(t) ==
    HeadN(SortValuesDesc(GroupBySum(t, << "state" >>, "profit", "label")), TopN)

CatSales(t) ==
    GroupBySum(t, << "category", "sub_category" >>, "sales", "label")

ShipSales(t) == GroupBySum(t, << "ship_mode" >>, "sales", "label")

HeatData(t) == GroupBySum(t, << "region", "segment" >>, "profit", "label")

HeatPivot(t) == Fillna(Pivot(HeatData(t)), 0)

\* ------------------------------------------------------------------ state
VARIABLES
    file,          \* the parsed contents of Global_Superstore2.csv
    cache,         \* st.cache_data's entry for load_data(): << >> or << table >>
    reads,         \* number of pd.read_csv calls made so far
    frames,        \* the DataFrame objects of the running script, by object
    df,            \* the object each script variable is bound to, or NoObject
    filtered_df,
    df_year,
    widgets_set,   \* FALSE until the sidebar widgets have a session value
    region,        \* the values the sidebar widgets return
    segment,
    category,
    date_range,
    page,
    pc,            \* position of the script run: load, sidebar, filter, page, idle
    failed,        \* the run ended in an uncaught exception
    kpis,          \* what the run handed to the page, NotRendered if nothing
    region_sales,
    year_sales,
    top_states,
    cat_sales,
    ship_sales,
    heat_pivot

widgets == << widgets_set, region, segment, category, date_range, page >>
objects == << frames, df, filtered_df, df_year >>
overview == << kpis, region_sales, year_sales, top_states >>
detailed == << cat_sales, ship_sales, heat_pivot >>
vars == << file, cache, reads, objects, widgets, pc, failed, overview, detailed >>

NoObject == "none"
Objects == { "read_csv", "mask", "copy" }
NotRendered == << >>
Pages == { "General Overview", "Detailed Analysis" }

\* What st.sidebar.date_input can return for a two-date default: a tuple of
\* zero to two dates (one date while the user has picked only the start of
\* the range).
DateInputs ==
    { << a, b >> : a \in Dates, b \in Dates } \cup { << a >> : a \in Dates } \cup { << >> }

NoFrames == [o \in Objects |-> << >>]

Init ==
    /\ file \in Tables
    /\ cache = << >>
    /\ reads = 0
    /\ frames = NoFrames
    /\ df = NoObject
    /\ filtered_df = NoObject
    /\ df_year = NoObject
    /\ widgets_set = FALSE
    /\ region = {}
    /\ segment = {}
    /\ category = {}
    /\ date_range = << >>
    /\ page = "General Overview"
    /\ pc = "load"
    /\ failed = FALSE
    /\ kpis = NotRendered
    /\ region_sales = NotRendered
    /\ year_sales = NotRendered
    /\ top_states = NotRendered
    /\ cat_sales = NotRendered
    /\ ship_sales = NotRendered
    /\ heat_pivot = NotRendered

\* Faulty variant of CacheMiss: load_data without the @st.cache_data decorator.
CacheAlwaysMiss(c) == TRUE

\* @st.cache_data: run the function body on a miss only.
CacheMiss(c) == c = << >>

\* df = load_data(): on a miss read and parse the file and store the result;
\* in both cases hand the script its own copy of the stored table.
LoadData ==
    /\ pc = "load"
    /\ cache' = IF CacheMiss(cache) THEN << file >> ELSE cache
    /\ reads' = IF CacheMiss(cache) THEN reads + 1 ELSE reads
    /\ df' = "read_csv"
    /\ frames' = [frames EXCEPT !["read_csv"] = cache'[1]]
    /\ pc' = "sidebar"
    /\ UNCHANGED << file, filtered_df, df_year, widgets, failed, overview, detailed >>

\* The four sidebar widgets: their defaults on the first run of the session,
\* the session's values afterwards.
SidebarFilters ==
    /\ pc = "sidebar"
    /\ IF widgets_set
       THEN UNCHANGED << region, segment, category, date_range >>
       ELSE /\ region' = Unique(frames[df], "region")
            /\ segment' = Unique(frames[df], "segment")
            /\ category' = Unique(frames[df], "category")
            /\ date_range' = << MinDate(frames[df]), MaxDateOf(frames[df]) >>
    /\ widgets_set' = TRUE
    /\ pc' = "filter"
    /\ UNCHANGED << file, cache, reads, objects, page, failed, overview, detailed >>

\* filtered_df = df[...]: date_range[0] or date_range[1] raises IndexError
\* when the picker returned fewer than two dates; otherwise the mask selects into a new object.
FilterData ==
    /\ pc = "filter"
    /\ IF Len(date_range) < 2
       THEN /\ failed' = TRUE
            /\ pc' = "idle"
            /\ UNCHANGED objects
       ELSE /\ filtered_df' = "mask"
            /\ frames' = [frames EXCEPT !["mask"] =
                              BooleanIndex(frames[df], region, segment, category, date_range)]
            /\ pc' = "page"
            /\ UNCHANGED << df, df_year, failed >>
    /\ UNCHANGED << file, cache, reads, widgets, overview, detailed >>

\* Faulty variant of Copy: df_year = filtered_df, the same object under a second name.
CopyAlias(o) == o

\* DataFrame.copy(): a new object.
Copy(o) == "copy"

\* Lines 60-85.
GeneralOverview ==
    /\ pc = "page"
    /\ page = "General Overview"
    /\ kpis' = Kpis(frames[filtered_df])
    /\ region_sales' = RegionSales(frames[filtered_df])
    /\ df_year' = Copy(filtered_df)
    /\ frames' = LET copied == [frames EXCEPT ![df_year'] = frames[filtered_df]]
                 IN  [copied EXCEPT ![df_year'] = WithYear(copied[df_year'])]
    /\ year_sales' = YearSales(frames'[df_year'])
    /\ top_states' = TopStates(frames'[filtered_df])
    /\ pc' = "idle"
    /\ UNCHANGED << file, cache, reads, df, filtered_df, widgets, failed, detailed >>

\* Lines 88-137.
DetailedAnalysis ==
    /\ pc = "page"
    /\ page = "Detailed Analysis"
    /\ cat_sales' = CatSales(frames[filtered_df])
    /\ ship_sales' = ShipSales(frames[filtered_df])
    /\ heat_pivot' = HeatPivot(frames[filtered_df])
    /\ pc' = "idle"
    /\ UNCHANGED << file, cache, reads, objects, widgets, failed, overview >>

\* A widget change reruns the script from the top in a fresh namespace; the
\* cache and the widgets' session values are all that survive.
Rerun ==
    /\ pc' = "load"
    /\ failed' = FALSE
    /\ frames' = NoFrames
    /\ df' = NoObject
    /\ filtered_df' = NoObject
    /\ df_year' = NoObject
    /\ kpis' = NotRendered
    /\ region_sales' = NotRendered
    /\ year_sales' = NotRendered
    /\ top_states' = NotRendered
    /\ cat_sales' = NotRendered
    /\ ship_sales' = NotRendered
    /\ heat_pivot' = NotRendered
    /\ UNCHANGED << file, cache, reads, widgets_set >>

ChangeRegion ==
    /\ pc = "idle"
    /\ \E sel \in SUBSET Unique(frames[df], "region") :
         /\ sel # region
         /\ region' = sel
    /\ UNCHANGED << segment, category, date_range, page >>
    /\ Rerun

ChangeSegment ==
    /\ pc = "idle"
    /\ \E sel \in SUBSET Unique(frames[df], "segment") :
         /\ sel # segment
         /\ segment' = sel
    /\ UNCHANGED << region, category, date_range, page >>
    /\ Rerun

ChangeCategory ==
    /\ pc = "idle"
    /\ \E sel \in SUBSET Unique(frames[df], "category") :
         /\ sel # category
         /\ category' = sel
    /\ UNCHANGED << region, segment, date_range, page >>
    /\ Rerun

ChangeDateRange ==
    /\ pc = "idle"
    /\ \E dr \in DateInputs :
         /\ dr # date_range
         /\ date_range' = dr
    /\ UNCHANGED << region, segment, category, page >>
    /\ Rerun

SelectPage ==
    /\ pc = "idle"
    /\ \E pg \in Pages :
         /\ pg # page
         /\ page' = pg
    /\ UNCHANGED << region, segment, category, date_range >>
    /\ Rerun

Next ==
    \/ LoadData
    \/ SidebarFilters
    \/ FilterData
    \/ GeneralOverview
    \/ DetailedAnalysis
    \/ ChangeRegion
    \/ ChangeSegment
    \/ ChangeCategory
    \/ ChangeDateRange
    \/ SelectPage

Spec == Init /\ [][Next]_vars

\* ------------------------------------------------------------------ claims
\* The Table and the FilteredTable of the current run.
Table == frames[df]
FilteredTable == frames[filtered_df]

Filtered == filtered_df # NoObject
OverviewRendered == pc = "idle" /\ ~failed /\ page = "General Overview"
DetailedRendered == pc = "idle" /\ ~failed /\ page = "Detailed Analysis"

\* The Filter Predicate of the run, conjunct by conjunct.
Satisfies(r) ==
    /\ r.region \in region
    /\ r.segment \in segment
    /\ r.category \in category
    /\ date_range[1] <= r.order_date
    /\ r.order_date <= date_range[2]

\* Positions of the Table's rows that satisfy the Filter Predicate.
Satisfying == { i \in 1..Len(Table) : Satisfies(Table[i]) }

\* The k-th smallest element of a set of positions.
Kth(S, k) == CHOOSE i \in S : Cardinality({ j \in S : j < i }) = k - 1

\* C1: the FilteredTable holds exactly the rows of the Table whose region,
\* segment and category are in the selected sets and whose order date lies
\* in [start, end], both ends included, in the Table's order: its k-th row
\* is the Table's k-th satisfying row.
FilterExact ==
    Filtered =>
        /\ Len(FilteredTable) = Cardinality(Satisfying)
        /\ \A k \in 1..Len(FilteredTable) :
               FilteredTable[k] = Table[Kth(Satisfying, k)]

\* C1 witness: a filter that keeps at least two rows, drops a row between
\* two kept ones, and keeps a row dated exactly at the end of the range.
FilterExactWitness ==
    /\ Filtered
    /\ Len(FilteredTable) >= 2
    /\ \E i, j, k \in 1..Len(Table) :
           /\ i < j
           /\ j < k
           /\ i \in Satisfying
           /\ j \notin Satisfying
           /\ k \in Satisfying
    /\ \E k \in 1..Len(FilteredTable) : FilteredTable[k].order_date = date_range[2]

\* C2: filtering is idempotent: the Filter Predicate applied to the
\* FilteredTable gives the FilteredTable again, rows and order.
FilterIdempotent ==
    Filtered =>
        BooleanIndex(FilteredTable, region, segment, category, date_range)
            = FilteredTable

\* C2 witness: a non-empty FilteredTable that is a proper part of the Table.
FilterIdempotentWitness ==
    /\ Filtered
    /\ Len(FilteredTable) >= 1
    /\ Len(FilteredTable) < Len(Table)

ReversedRange == Len(date_range) = 2 /\ date_range[1] > date_range[2]

\* C7: with a start date after the end date the run does not fail and the
\* FilteredTable is empty, whatever the Table and the selected sets.
InvalidDateRangeEmpty ==
    (ReversedRange /\ pc \in { "page", "idle" }) =>
        /\ ~failed
        /\ Filtered
        /\ FilteredTable = << >>

\* C7 witness: a completed run over a reversed range with every region,
\* segment and category of a non-empty Table selected.
InvalidDateRangeWitness ==
    /\ ReversedRange
    /\ pc = "idle"
    /\ Len(Table) > 0
    /\ region = Unique(Table, "region") /\ region # {}
    /\ segment = Unique(Table, "segment") /\ segment # {}
    /\ category = Unique(Table, "category") /\ category # {}

\* Sum of the value column of a grouped view.
RECURSIVE SumValues(_)
SumValues(g) == IF g = << >> THEN 0 ELSE g[1].value + SumValues(Tail(g))

\* Sum of the cells of the heatmap's grid.
RECURSIVE SumSeq(_)
SumSeq(q) == IF q = << >> THEN 0 ELSE q[1] + SumSeq(Tail(q))
SumCells(h) == SumSeq([i \in 1..Len(h.values) |-> SumSeq(h.values[i])])

\* Rows of the FilteredTable with a value in every one of the columns cols.
WithKeys(cols) ==
    SelectSeq(FilteredTable, LAMBDA r : \A j \in 1..Len(cols) : r[cols[j]] # NULL)

\* C3 as stated: in each sum-based grouped view the groups' sums add up to
\* the sum of the reduced field over all rows of the FilteredTable.
Conservation ==
    /\ OverviewRendered =>
          /\ SumValues(region_sales) = SeqSum(FilteredTable, "sales")
          /\ SumValues(year_sales) = SeqSum(FilteredTable, "sales")
    /\ DetailedRendered =>
          /\ SumValues(cat_sales) = SeqSum(FilteredTable, "sales")
          /\ SumValues(ship_sales) = SeqSum(FilteredTable, "sales")
          /\ SumCells(heat_pivot) = SeqSum(FilteredTable, "profit")

\* C3 amended: the groups' sums add up to the sum of the reduced field over
\* the FilteredTable rows whose grouping keys are all present; for Sales by
\* Region, Yearly Sales Trend and the Profit Heatmap these are all the rows
\* of the FilteredTable.
ConservationOverKeyedRows ==
    /\ OverviewRendered =>
          /\ SumValues(region_sales) = SeqSum(FilteredTable, "sales")
          /\ SumValues(year_sales) = SeqSum(FilteredTable, "sales")
    /\ DetailedRendered =>
          /\ SumValues(cat_sales) =
                 SeqSum(WithKeys(<< "category", "sub_category" >>), "sales")
          /\ SumValues(ship_sales) = SeqSum(WithKeys(<< "ship_mode" >>), "sales")
          /\ SumCells(heat_pivot) = SeqSum(FilteredTable, "profit")

\* C3 witness: the Detailed Analysis views of a FilteredTable that has a row
\* without ship mode and sub-category next to a row with both.
ConservationWitness ==
    /\ DetailedRendered
    /\ \E i, j \in 1..Len(FilteredTable) :
           /\ FilteredTable[i].ship_mode = NULL
           /\ FilteredTable[i].sub_category = NULL
           /\ FilteredTable[j].ship_mode # NULL
           /\ FilteredTable[j].sub_category # NULL
    /\ SumValues(ship_sales) > 0
    /\ SumValues(ship_sales) < SeqSum(FilteredTable, "sales")

\* Summed profit of a state over the FilteredTable.
StateProfit(st) ==
    SeqSum(SelectSeq(FilteredTable, LAMBDA r : r.state = st), "profit")

\* C4: the Top 10 States view has at most 10 rows, in non-increasing order
\* of profit; each row is a distinct state with its profit summed over the
\* FilteredTable; no state left out has more profit than a state shown.
TopStatesCorrect ==
    OverviewRendered =>
        LET shown == { top_states[i].key[1] : i \in 1..Len(top_states) }
        IN  /\ Len(top_states) <= 10
            /\ \A i \in 1..(Len(top_states) - 1) :
                   top_states[i].value >= top_states[i + 1].value
            /\ Cardinality(shown) = Len(top_states)
            /\ shown \subseteq Unique(FilteredTable, "state")
            /\ \A i \in 1..Len(top_states) :
                   top_states[i].value = StateProfit(top_states[i].key[1])
            /\ \A st \in Unique(FilteredTable, "state") \ shown :
                   \A i \in 1..Len(top_states) : StateProfit(st) <= top_states[i].value

\* C4 witness: more than 10 states in the FilteredTable, 10 of them shown,
\* the state left out tied with the last one shown.
TopStatesWitness ==
    /\ OverviewRendered
    /\ Cardinality(Unique(FilteredTable, "state")) > 10
    /\ Len(top_states) = 10
    /\ \E st \in Unique(FilteredTable, "state") :
           /\ \A i \in 1..10 : top_states[i].key[1] # st
           /\ StateProfit(st) = top_states[10].value
    /\ top_states[1].value > top_states[10].value

\* Summed profit of a (region, segment) pair over the FilteredTable.
PairProfit(a, b) ==
    SeqSum(SelectSeq(FilteredTable, LAMBDA r : r.region = a /\ r.segment = b), "profit")

\* The set of elements of a sequence.
Range(q) == { q[i] : i \in 1..Len(q) }

ZeroCell(a, b) ==
    \E i \in 1..Len(heat_pivot.index) : \E j \in 1..Len(heat_pivot.columns) :
        /\ heat_pivot.index[i] = a
        /\ heat_pivot.columns[j] = b
        /\ heat_pivot.values[i][j] = 0

\* C6 as stated: over an empty FilteredTable the KPI summary is 0, 0, no
\* data, 0, every grouped view has no rows, and the Profit Heatmap is still
\* the full grid of zeros: it has a cell holding 0 for (at least) every
\* selected region and segment.
EmptyResultFullGrid ==
    /\ (OverviewRendered /\ FilteredTable = << >>) =>
          /\ kpis = [total_sales |-> 0, total_profit |-> 0,
                     avg_shipping |-> << >>, total_orders |-> 0]
          /\ region_sales = << >>
          /\ year_sales = << >>
          /\ top_states = << >>
    /\ (DetailedRendered /\ FilteredTable = << >>) =>
          /\ cat_sales = << >>
          /\ ship_sales = << >>
          /\ \A a \in region : \A b \in segment : ZeroCell(a, b)
          /\ \A i \in 1..Len(heat_pivot.values) :
                 \A j \in 1..Len(heat_pivot.values[i]) : heat_pivot.values[i][j] = 0

\* A grouped view's rows carry no missing key and each sums exactly the
\* FilteredTable rows that have its key.
GroupsOfKeys(g, cols, val) ==
    \A i \in 1..Len(g) :
        /\ \A j \in 1..Len(cols) : g[i].key[j] # NULL
        /\ g[i].value =
               SeqSum(SelectSeq(FilteredTable, LAMBDA r : KeyOf(r, cols) = g[i].key), val)

\* C10: in every grouped view a FilteredTable row with a missing grouping
\* key (either key, for a two-key view) is in no group, and no group is
\* labelled with a missing value or a placeholder.
NullKeysExcluded ==
    /\ OverviewRendered =>
          /\ GroupsOfKeys(region_sales, << "region" >>, "sales")
          /\ GroupsOfKeys(top_states, << "state" >>, "profit")
          /\ Len(region_sales) = Cardinality(Unique(FilteredTable, "region"))
    /\ DetailedRendered =>
          /\ GroupsOfKeys(cat_sales, << "category", "sub_category" >>, "sales")
          /\ GroupsOfKeys(ship_sales, << "ship_mode" >>, "sales")
          /\ Len(ship_sales) = Cardinality(Unique(FilteredTable, "ship_mode"))
          /\ NULL \notin Range(heat_pivot.index)
          /\ NULL \notin Range(heat_pivot.columns)
          /\ Range(heat_pivot.index) \subseteq Unique(FilteredTable, "region")
          /\ Range(heat_pivot.columns) \subseteq Unique(FilteredTable, "segment")

\* C10 witness: the Detailed Analysis views of a FilteredTable with a row
\* that has no ship mode and no sub-category, beside groups that exist.
NullKeysDetailedWitness ==
    /\ DetailedRendered
    /\ \E i \in 1..Len(FilteredTable) :
           /\ FilteredTable[i].ship_mode = NULL
           /\ FilteredTable[i].sub_category = NULL
    /\ Len(ship_sales) >= 1
    /\ Len(cat_sales) >= 1

\* C8: the source file is read and parsed at most once in the session;
\* every run's Table equals the table that read produced (the cache's
\* entry); and the load precedes filtering and the views: no FilteredTable
\* and no rendered page without a loaded Table.
LoadOnce ==
    /\ reads <= 1
    /\ df # NoObject => (reads = 1 /\ cache = << file >> /\ Table = cache[1])
    /\ Filtered => df # NoObject
    /\ pc \in { "sidebar", "filter", "page", "idle" } => df # NoObject

\* C8 witness: a later run of the session (the page was switched, which
\* takes a rerun) has completed on the table read by the first run.
LoadOnceWitness ==
    /\ DetailedRendered
    /\ reads = 1
    /\ Len(Table) > 0
    /\ Table = file

\* C9: the Table of a run always equals the loaded table, and no step
\* changes the contents of the Table or of the FilteredTable once bound:
\* filtering and the views (the Year column of the Yearly Sales Trend
\* included) work on new objects.
TableImmutable ==
    /\ [](df # NoObject => Table = file)
    /\ [][ /\ (df # NoObject /\ df' = df) => frames'[df] = frames[df]
           /\ (filtered_df # NoObject /\ filtered_df' = filtered_df) =>
                  frames'[filtered_df] = frames[filtered_df] ]_vars

\* C9 witness: the General Overview has been computed from a FilteredTable
\* that is a proper, non-empty part of the Table; the Year column is on the
\* copy only.
TableImmutableWitness ==
    /\ OverviewRendered
    /\ df_year # NoObject
    /\ Len(FilteredTable) >= 1
    /\ Len(FilteredTable) < Len(Table)
    /\ "Year" \in DOMAIN frames[df_year][1]
    /\ "Year" \notin DOMAIN FilteredTable[1]
    /\ "Year" \notin DOMAIN Table[1]

====
